---- MODULE Spec2Model ----
(***************************************************************************)
(* Client-side interceptor chaining for DRPC connections.                  *)
(*                                                                         *)
(* Two packages of the repository are modelled side by side:              *)
(*   pkg = "drcpclient"      src/drcpclient/clientconn.go                  *)
(*   pkg = "drcpclientconn"  src/unnamed/part_001 (with drpcinterceptors)  *)
(* An interceptor is caller-supplied code; what it does when it runs       *)
(* (pass the call on, swallow or replace the error, return early, tamper   *)
(* with the payloads) is chosen when it is entered and kept in its frame.  *)
(***************************************************************************)
EXTENDS Integers, Sequences, FiniteSets, TLC

\* ---------------------------------------------------------------- bounds
MaxOpts == 2      \* dial options handed to one construction
MaxArgs == 2      \* interceptors handed to one WithChain...Interceptor
MaxInts == 3      \* interceptors handed to one construction, over all its options

\* ---------------------------------------------------------------- values
Packages == {"drcpclient", "drcpclientconn"}
Kinds == {"unary", "stream"}

\* An interceptor function value is named by the option and the argument
\* position it was given at: <<kind, k, j>>.
NoInt == <<"none", 0, 0>>

NilErr == "nil"
ConnErr == "ConnErr"
IntErr == "IntErr"
DialErrors == {"DialErr", "DialTimeout"}

UnaryBehaviours == {"pass", "swallow", "replace", "short", "mutate"}
StreamBehaviours == {"pass", "replace", "short"}

VARIABLES
    pkg,               \* which package the program uses
    dialOpts,          \* the options handed to the construction
    unaryInts,         \* DialOptions.unaryInts
    streamInts,        \* DialOptions.streamInts
    chainedUnaryInt,   \* DialOptions.chainedUnaryInt / DialOptions.UnaryInt
    chainedStreamInt,  \* DialOptions.chainedStreamInt / DialOptions.StreamInt
    optsBuilt,         \* a DialOptions value exists
    Conn,              \* ClientConn.Conn: "none" or "conn"
    built,             \* "no", "ok" or "failed": outcome of the construction
    dialed,            \* what the connection provider returned: "notcalled" or an error value
    buildErr,          \* the error the construction returned
    buildLog,          \* the steps the construction took, in order
    calls              \* per caller: the call it has in progress

vars == <<pkg, dialOpts, unaryInts, streamInts, chainedUnaryInt, chainedStreamInt,
          optsBuilt, Conn, built, dialed, buildErr, buildLog, calls>>

dopts == <<unaryInts, streamInts, chainedUnaryInt, chainedStreamInt>>

\* ------------------------------------------------------- compiled chains
\* A compiled chain is nil, one interceptor used directly, or the closure
\* of the chain...ClientInterceptors methods, which captures n and reads
\* the list `list` of the DialOptions when it is called.
NilChain == [tag |-> "nil", n |-> 0, f |-> NoInt, list |-> "none"]
SingleChain(f) == [tag |-> "interceptor", n |-> 0, f |-> f, list |-> "none"]
ClosureChain(n, list) == [tag |-> "closure", n |-> n, f |-> NoInt, list |-> list]

\* ------------------------------------------------------------- options
\* WithChainUnaryInterceptor(ints...) / WithChainStreamInterceptor(ints...)
WithChainUnaryInterceptor(ints) == [kind |-> "unary", ints |-> ints]
WithChainStreamInterceptor(ints) == [kind |-> "stream", ints |-> ints]

\* The k-th option of a list, of the given kind, with n interceptors.
OptionAt(k, kind, n) ==
    IF kind = "unary"
    THEN WithChainUnaryInterceptor([j \in 1..n |-> <<"unary", k, j>>])
    ELSE WithChainStreamInterceptor([j \in 1..n |-> <<"stream", k, j>>])

OptionShapes == Kinds \X (0..MaxArgs)

RECURSIVE SumArgs(_, _)
SumArgs(shape, k) == IF k = 0 THEN 0 ELSE shape[k][2] + SumArgs(shape, k - 1)

DialOptionLists ==
    UNION { { [k \in 1..len |-> OptionAt(k, shape[k][1], shape[k][2])] :
                shape \in {sh \in [1..len -> OptionShapes] : SumArgs(sh, len) <= MaxInts} } :
            len \in 0..MaxOpts }

\* One step of a construction: the provider called ("dial"), the k-th option
\* applied ("option"), a chain compiled ("chainUnary", "chainStream").
Step(step, k) == [step |-> step, k |-> k]

\* Variant: an option sets the list of its kind instead of appending to it.
ApplyOptionReplace(opt, lists) ==
    IF opt.kind = "unary"
    THEN [lists EXCEPT !.unary = opt.ints]
    ELSE [lists EXCEPT !.stream = opt.ints]

\* opt(options): the option's closure appends to the list of its kind.
ApplyOption(opt, lists) ==
    IF opt.kind = "unary"
    THEN [lists EXCEPT !.unary = lists.unary \o opt.ints]
    ELSE [lists EXCEPT !.stream = lists.stream \o opt.ints]

\* for _, opt := range opts { opt(options) }
RECURSIVE ApplyOptions(_, _, _)
ApplyOptions(opts, k, lists) ==
    IF k > Len(opts) THEN lists
    ELSE ApplyOptions(opts, k + 1,
                      ApplyOption(opts[k], [lists EXCEPT !.log = Append(@, Step("option", k))]))

EmptyLists == [unary |-> <<>>, stream |-> <<>>, log |-> <<>>]

\* ---------------------------------------------- drcpclient: compilation
\* Variant: the unary chain sized by the stream list.
chainUnaryByStreamLen(uInts, sInts) == ClosureChain(Len(sInts), "unaryInts")

chainUnaryClientInterceptors(uInts, sInts) == ClosureChain(Len(uInts), "unaryInts")

chainStreamClientInterceptors(uInts, sInts) == ClosureChain(Len(uInts), "streamInts")

\* ---------------------------------------- drpcinterceptors: compilation
ChainUnaryClientInterceptors(uInts, sInts) ==
    CASE Len(uInts) = 0 -> NilChain
      [] Len(uInts) = 1 -> SingleChain(uInts[1])
      [] OTHER -> ClosureChain(Len(uInts), "unaryInts")

ChainStreamClientInterceptors(uInts, sInts) ==
    CASE Len(sInts) = 0 -> NilChain
      [] Len(sInts) = 1 -> SingleChain(sInts[1])
      [] OTHER -> ClosureChain(Len(sInts), "streamInts")

\* ------------------------------------------------------------ calls
NoRet == [stream |-> "none", err |-> NilErr]

\* A context is the caller's context and the interceptors that derived a new
\* one from it, in the order they did.
Background == [root |-> "background", by |-> <<>>]
Contexts == {Background, [root |-> "request", by |-> <<>>]}
DeriveCtx(ctx, who) == [ctx EXCEPT !.by = Append(@, who)]

\* depth counts the calls issued from inside an interceptor that are still
\* running; folds counts the runs of the fold loop.
IdleCall == [pc |-> "idle", kind |-> "none", via |-> "none", cont |-> <<>>,
             stack |-> <<>>, in |-> "", arg |-> "", out |-> "",
             ctx0 |-> Background, ctx |-> Background,
             depth |-> 0, reentered |-> FALSE, folds |-> 0,
             ret |-> NoRet, log |-> <<>>]

\* ------------------------------------------------------ running a chain
Panic == [ok |-> FALSE, cont |-> <<>>]
Built(cont) == [ok |-> TRUE, cont |-> cont]

\* Variant: the fold wraps in the wrong direction, so the last interceptor
\* ends up outermost.
RECURSIVE foldLoopOutward(_, _, _)
foldLoopOutward(ints, i, chained) ==
    IF i < 0 THEN Built(chained)
    ELSE IF i >= Len(ints) THEN Panic
    ELSE foldLoopOutward(ints, i - 1, chained \o <<ints[i + 1]>>)

\* for i := n - 1; i >= 0; i-- { next := chained; interceptor := ints[i]; chained = ... }
\* `chained` is kept as the interceptors it will enter, outermost first, before
\* the terminal operation.  Indexing past the end of ints is a runtime panic.
RECURSIVE foldLoop(_, _, _)
foldLoop(ints, i, chained) ==
    IF i < 0 THEN Built(chained)
    ELSE IF i >= Len(ints) THEN Panic
    ELSE foldLoop(ints, i - 1, <<ints[i + 1]>> \o chained)

ListOf(name, uInts, sInts) == IF name = "unaryInts" THEN uInts ELSE sInts

\* Calling a compiled (non-nil) chain with the terminal operation as its last
\* argument: the closure folds the list it reads; a single interceptor is
\* called as it is.
callChained(chain, uInts, sInts) ==
    IF chain.tag = "closure"
    THEN foldLoop(ListOf(chain.list, uInts, sInts), chain.n - 1, <<>>)
    ELSE Built(<<chain.f>>)

Requests == {"input", "ping"}

\* What the server behind the underlying connection answers to a request.
Reply(req) ==
    CASE req = "input" -> "output"
      [] req = "ping" -> "pong"
      [] OTHER -> "garbled"

Event(ev, who, beh, call, arg, out, ret) ==
    [ev |-> ev, who |-> who, beh |-> beh, ctx |-> call.ctx, depth |-> call.depth,
     arg |-> arg, out |-> out, stream |-> ret.stream, err |-> ret.err]

\* What an entered interceptor holds: its next, the connection handle, context
\* and request it was given.  phase is "inner" while a call it issued on its
\* handle is running, "next" while its next is running.
Frame(who, beh, next, ctx, arg) ==
    [who |-> who, beh |-> beh, next |-> next, handle |-> "wrapper",
     ctx |-> ctx, arg |-> arg, phase |-> "next"]

\* The body shared by the Invoke and NewStream methods: take the chain when it
\* is not nil, else call the terminal operation directly.
route(chain) ==
    IF chain.tag # "nil"
    THEN LET r == callChained(chain, unaryInts, streamInts) IN
         [via |-> "chain", ok |-> r.ok, cont |-> r.cont,
          folds |-> IF chain.tag = "closure" THEN 1 ELSE 0]
    ELSE [via |-> "direct", ok |-> TRUE, cont |-> <<>>, folds |-> 0]

startCall(kind, chain, ctx, in) ==
    LET r == route(chain) IN
    [IdleCall EXCEPT !.pc = IF r.ok THEN "call" ELSE "panic",
                     !.kind = kind, !.via = r.via, !.cont = r.cont,
                     !.folds = r.folds, !.ctx0 = ctx, !.ctx = ctx,
                     !.in = in, !.arg = in]

\* Variant: Invoke compiles the unary chain anew, with the switch on the
\* number of interceptors, and stores it before it uses it.
InvokeRecompiling(c, ctx, in) ==
    /\ pkg = "drcpclient"
    /\ built = "ok"
    /\ calls[c].pc = "idle"
    /\ chainedUnaryInt' = ChainUnaryClientInterceptors(unaryInts, streamInts)
    /\ calls' = [calls EXCEPT ![c] = startCall("unary", chainedUnaryInt, ctx, in)]
    /\ UNCHANGED <<pkg, dialOpts, unaryInts, streamInts, chainedStreamInt, optsBuilt, Conn,
                   built, dialed, buildErr, buildLog>>

\* drcpclient: func (c ClientConn) Invoke(ctx, rpc, enc, in, out) error
Invoke(c, ctx, in) ==
    /\ pkg = "drcpclient"
    /\ built = "ok"
    /\ calls[c].pc = "idle"
    /\ calls' = [calls EXCEPT ![c] = startCall("unary", chainedUnaryInt, ctx, in)]
    /\ UNCHANGED <<pkg, dialOpts, dopts, optsBuilt, Conn, built, dialed, buildErr, buildLog>>

\* drcpclient: func (c ClientConn) NewStream(ctx, rpc, enc) (drpc.Stream, error)
NewStream(c, ctx) ==
    /\ pkg = "drcpclient"
    /\ built = "ok"
    /\ calls[c].pc = "idle"
    /\ calls' = [calls EXCEPT ![c] = startCall("stream", chainedStreamInt, ctx, "")]
    /\ UNCHANGED <<pkg, dialOpts, dopts, optsBuilt, Conn, built, dialed, buildErr, buildLog>>

\* drcpclientconn: func (c ClientConn) Invoke(ctx, rpc, enc, in, out) error
ConnInvoke(c, ctx, in) ==
    /\ pkg = "drcpclientconn"
    /\ built = "ok"
    /\ calls[c].pc = "idle"
    /\ calls' = [calls EXCEPT ![c] = startCall("unary", chainedUnaryInt, ctx, in)]
    /\ UNCHANGED <<pkg, dialOpts, dopts, optsBuilt, Conn, built, dialed, buildErr, buildLog>>

\* drcpclientconn: func (c ClientConn) NewStream(ctx, rpc, enc) (drpc.Stream, error)
ConnNewStream(c, ctx) ==
    /\ pkg = "drcpclientconn"
    /\ built = "ok"
    /\ calls[c].pc = "idle"
    /\ calls' = [calls EXCEPT ![c] = startCall("stream", chainedStreamInt, ctx, "")]
    /\ UNCHANGED <<pkg, dialOpts, dopts, optsBuilt, Conn, built, dialed, buildErr, buildLog>>

\* Variant: the continuation hands the interceptor the response slot where
\* the request belongs.
enterInterceptorSwapped(call, beh) ==
    LET who == Head(call.cont)
        before == Event("before", who, beh, call, call.out, call.out, NoRet) IN
    IF beh = "short"
    THEN [call EXCEPT !.pc = "ret", !.cont = <<>>,
                      !.ret = [stream |-> "none", err |-> IntErr],
                      !.log = Append(call.log, before)]
    ELSE [call EXCEPT !.pc = "call", !.cont = Tail(call.cont),
                      !.arg = IF beh = "mutate" THEN "tampered" ELSE call.out,
                      !.stack = <<Frame(who, beh, Tail(call.cont), call.ctx, call.out)>>
                                \o call.stack,
                      !.log = Append(call.log, before)]

\* Variant: the continuation calls its interceptor with the context of the
\* method's caller, captured when the chain was put together, not with the
\* context it is called with.
enterInterceptorOuterCtx(call, beh) ==
    LET who == Head(call.cont)
        at == [call EXCEPT !.ctx = call.ctx0]
        before == Event("before", who, beh, at, call.arg, call.out, NoRet)
        fr == Frame(who, beh, Tail(call.cont), call.ctx0, call.arg) IN
    IF beh = "short"
    THEN [call EXCEPT !.pc = "ret", !.cont = <<>>,
                      !.ret = [stream |-> "none", err |-> IntErr],
                      !.log = Append(call.log, before)]
    ELSE [call EXCEPT !.pc = "call", !.cont = Tail(call.cont),
                      !.arg = IF beh = "mutate" THEN "tampered" ELSE call.arg,
                      !.ctx = IF beh = "derive" THEN DeriveCtx(call.ctx0, who) ELSE call.ctx0,
                      !.stack = <<fr>> \o call.stack,
                      !.log = Append(call.log, before)]

\* Variant: the layers below an interceptor are run whether or not it calls
\* next.
enterInterceptorRunsOn(call, beh) ==
    LET who == Head(call.cont)
        before == Event("before", who, beh, call, call.arg, call.out, NoRet)
        fr == Frame(who, beh, Tail(call.cont), call.ctx, call.arg) IN
    [call EXCEPT !.pc = "call", !.cont = Tail(call.cont),
                 !.arg = IF beh = "mutate" THEN "tampered" ELSE call.arg,
                 !.ctx = IF beh = "derive" THEN DeriveCtx(call.ctx, who) ELSE call.ctx,
                 !.stack = <<fr>> \o call.stack,
                 !.log = Append(call.log, before)]

\* chained = func(ctx, rpc, enc, in, out) error { return interceptor(ctx, rpc, enc, in, out, conn, next) }
\* The continuation is called: its interceptor is entered with the context and
\* the request the continuation was called with, the rest of the continuation
\* as next and the wrapper as connection handle.  The interceptor returns at
\* once ("short"), first issues a call of the same method on the handle ("reenter"),
\* or calls next, with a context of its own when it derives one ("derive").
enterInterceptor(call, beh) ==
    LET who == Head(call.cont)
        before == Event("before", who, beh, call, call.arg, call.out, NoRet)
        fr == Frame(who, beh, Tail(call.cont), call.ctx, call.arg)
        inner == IF fr.handle = "wrapper"
                 THEN route(IF call.kind = "unary" THEN chainedUnaryInt ELSE chainedStreamInt)
                 ELSE [via |-> "direct", ok |-> TRUE, cont |-> <<>>, folds |-> 0] IN
    CASE beh = "short" ->
           [call EXCEPT !.pc = "ret", !.cont = <<>>,
                        !.ret = [stream |-> "none", err |-> IntErr],
                        !.log = Append(call.log, before)]
      [] beh = "reenter" ->
           [call EXCEPT !.pc = IF inner.ok THEN "call" ELSE "panic",
                        !.cont = inner.cont,
                        !.folds = call.folds + inner.folds,
                        !.depth = call.depth + 1,
                        !.reentered = TRUE,
                        !.stack = <<[fr EXCEPT !.phase = "inner"]>> \o call.stack,
                        !.log = Append(call.log, before)]
      [] OTHER ->
           [call EXCEPT !.pc = "call", !.cont = Tail(call.cont),
                        !.arg = IF beh = "mutate" THEN "tampered" ELSE call.arg,
                        !.ctx = IF beh = "derive" THEN DeriveCtx(call.ctx, who) ELSE call.ctx,
                        !.stack = <<fr>> \o call.stack,
                        !.log = Append(call.log, before)]

\* What the interceptor of frame fr returns when its next returned ret.
handBack(fr, ret) ==
    CASE fr.beh = "swallow" -> [ret EXCEPT !.err = NilErr]
      [] fr.beh = "replace" -> [stream |-> "none", err |-> IntErr]
      [] OTHER -> ret

\* Variant: a failure of next is returned straight to the caller of the
\* method, past the interceptors still waiting.
leaveInterceptorAbort(call) ==
    LET fr == Head(call.stack)
        at == [call EXCEPT !.ctx = fr.ctx]
        after == Event("after", fr.who, fr.beh, at, "", call.out, call.ret)
        back == handBack(fr, call.ret) IN
    [call EXCEPT !.stack = IF back.err # NilErr THEN <<>> ELSE Tail(call.stack),
                 !.ret = back,
                 !.ctx = fr.ctx,
                 !.out = IF fr.beh = "mutate" THEN "tampered" ELSE call.out,
                 !.log = Append(call.log, after)]

\* A call has returned ret to the interceptor on top of the stack.  When it
\* was the call the interceptor issued on its handle, the interceptor goes on
\* to call its next; when it was its next, the interceptor returns to its own
\* caller what its behaviour says.
leaveInterceptor(call) ==
    LET fr == Head(call.stack)
        at == [call EXCEPT !.ctx = fr.ctx,
                           !.depth = IF fr.phase = "inner" THEN call.depth - 1 ELSE call.depth]
        after == Event(IF fr.phase = "inner" THEN "reentered" ELSE "after",
                       fr.who, fr.beh, at, "", call.out, call.ret) IN
    IF fr.phase = "inner"
    THEN [call EXCEPT !.pc = "call", !.cont = fr.next,
                      !.ctx = fr.ctx, !.arg = fr.arg,
                      !.depth = call.depth - 1,
                      !.stack = <<[fr EXCEPT !.phase = "next"]>> \o Tail(call.stack),
                      !.ret = NoRet,
                      !.log = Append(call.log, after)]
    ELSE [call EXCEPT !.stack = Tail(call.stack),
                      !.ret = handBack(fr, call.ret),
                      !.ctx = fr.ctx,
                      !.out = IF fr.beh = "mutate" THEN "tampered" ELSE call.out,
                      !.log = Append(call.log, after)]

\* Variant: the continuation being run is shared between the calls in flight,
\* so an interceptor is entered with the continuation of the call that is
\* furthest along.
UnaryInterceptorShared(c, beh) ==
    /\ calls[c].pc = "call"
    /\ calls[c].kind = "unary"
    /\ calls[c].cont # <<>>
    /\ beh = "reenter" => ~calls[c].reentered
    /\ LET running == {d \in DOMAIN calls : calls[d].pc = "call" /\ calls[d].cont # <<>>}
           shared == CHOOSE d \in running :
                        \A e \in running : Len(calls[d].cont) <= Len(calls[e].cont) IN
       calls' = [calls EXCEPT ![c] = enterInterceptor([calls[c] EXCEPT !.cont = calls[shared].cont], beh)]
    /\ UNCHANGED <<pkg, dialOpts, dopts, optsBuilt, Conn, built, dialed, buildErr, buildLog>>

UnaryInterceptor(c, beh) ==
    /\ calls[c].pc = "call"
    /\ calls[c].kind = "unary"
    /\ calls[c].cont # <<>>
    /\ beh = "reenter" => ~calls[c].reentered
    /\ calls' = [calls EXCEPT ![c] = enterInterceptor(calls[c], beh)]
    /\ UNCHANGED <<pkg, dialOpts, dopts, optsBuilt, Conn, built, dialed, buildErr, buildLog>>

StreamInterceptor(c, beh) ==
    /\ calls[c].pc = "call"
    /\ calls[c].kind = "stream"
    /\ calls[c].cont # <<>>
    /\ beh = "reenter" => ~calls[c].reentered
    /\ calls' = [calls EXCEPT ![c] = enterInterceptor(calls[c], beh)]
    /\ UNCHANGED <<pkg, dialOpts, dopts, optsBuilt, Conn, built, dialed, buildErr, buildLog>>

\* Variant: a failed Invoke of the underlying connection is issued once more.
terminalInvokeRetry(call, err) ==
    LET ret == [stream |-> "none", err |-> err]
        out == IF err = NilErr THEN Reply(call.arg) ELSE call.out
        ev == Event("terminal", NoInt, "conn", call, call.arg, out, ret) IN
    [call EXCEPT !.pc = "ret",
                 !.ret = ret,
                 !.out = out,
                 !.log = IF err = NilErr THEN Append(call.log, ev)
                         ELSE call.log \o <<ev, ev>>]

\* c.Conn.Invoke(ctx, rpc, enc, in, out): the underlying connection serves the
\* call: it fills the response slot and returns nil, or fails with its error.
terminalInvoke(call, err) ==
    LET ret == [stream |-> "none", err |-> err]
        out == IF err = NilErr THEN Reply(call.arg) ELSE call.out IN
    [call EXCEPT !.pc = "ret",
                 !.ret = ret,
                 !.out = out,
                 !.log = Append(call.log, Event("terminal", NoInt, "conn", call, call.arg, out, ret))]

\* c.Conn.NewStream(ctx, rpc, enc): a stream, or the connection's error.
terminalNewStream(call, err) ==
    LET ret == [stream |-> IF err = NilErr THEN "stream" ELSE "none", err |-> err] IN
    [call EXCEPT !.pc = "ret",
                 !.ret = ret,
                 !.log = Append(call.log, Event("terminal", NoInt, "conn", call, call.arg, call.out, ret))]

UnaryInvoker(c, err) ==
    /\ calls[c].pc = "call"
    /\ calls[c].kind = "unary"
    /\ calls[c].cont = <<>>
    /\ Conn = "conn"
    /\ calls' = [calls EXCEPT ![c] = terminalInvoke(calls[c], err)]
    /\ UNCHANGED <<pkg, dialOpts, dopts, optsBuilt, Conn, built, dialed, buildErr, buildLog>>

Streamer(c, err) ==
    /\ calls[c].pc = "call"
    /\ calls[c].kind = "stream"
    /\ calls[c].cont = <<>>
    /\ Conn = "conn"
    /\ calls' = [calls EXCEPT ![c] = terminalNewStream(calls[c], err)]
    /\ UNCHANGED <<pkg, dialOpts, dopts, optsBuilt, Conn, built, dialed, buildErr, buildLog>>

\* An interceptor's call of next returns.
InterceptorReturn(c) ==
    /\ calls[c].pc = "ret"
    /\ calls[c].stack # <<>>
    /\ calls' = [calls EXCEPT ![c] = leaveInterceptor(calls[c])]
    /\ UNCHANGED <<pkg, dialOpts, dopts, optsBuilt, Conn, built, dialed, buildErr, buildLog>>

\* Variant: the method drops the error of the chain.
ReturnNil(c) ==
    /\ calls[c].pc = "ret"
    /\ calls[c].stack = <<>>
    /\ calls' = [calls EXCEPT ![c].pc = "done", ![c].ret.err = NilErr]
    /\ UNCHANGED <<pkg, dialOpts, dopts, optsBuilt, Conn, built, dialed, buildErr, buildLog>>

\* Variant: the method wraps a failure of the chain in an error of its own.
ReturnWrapped(c) ==
    /\ calls[c].pc = "ret"
    /\ calls[c].stack = <<>>
    /\ calls' = [calls EXCEPT ![c].pc = "done",
                              ![c].ret.err = IF calls[c].ret.err = NilErr THEN NilErr ELSE "WrappedErr"]
    /\ UNCHANGED <<pkg, dialOpts, dopts, optsBuilt, Conn, built, dialed, buildErr, buildLog>>

\* return c.dopts.chainedUnaryInt(...) / return invoker(...): the method
\* returns to its caller what the chain or the terminal operation returned.
Return(c) ==
    /\ calls[c].pc = "ret"
    /\ calls[c].stack = <<>>
    /\ calls' = [calls EXCEPT ![c].pc = "done"]
    /\ UNCHANGED <<pkg, dialOpts, dopts, optsBuilt, Conn, built, dialed, buildErr, buildLog>>

\* The caller is ready for its next call.
NextCall(c) ==
    /\ calls[c].pc = "done"
    /\ calls' = [calls EXCEPT ![c] = IdleCall]
    /\ UNCHANGED <<pkg, dialOpts, dopts, optsBuilt, Conn, built, dialed, buildErr, buildLog>>

Callers == DOMAIN calls

Init ==
    /\ pkg \in Packages
    /\ dialOpts = <<>>
    /\ unaryInts = <<>>
    /\ streamInts = <<>>
    /\ chainedUnaryInt = NilChain
    /\ chainedStreamInt = NilChain
    /\ optsBuilt = FALSE
    /\ Conn = "none"
    /\ built = "no"
    /\ dialed = "notcalled"
    /\ buildErr = NilErr
    /\ buildLog = <<>>
    /\ calls = [c \in {1} |-> IdleCall]

\* ------------------------------------------------------- construction
\* newDialOptions(opts): apply the options in order, then compile both chains.
newDialOptions(opts) ==
    LET lists == ApplyOptions(opts, 1, EmptyLists) IN
    [unaryInts |-> lists.unary,
     streamInts |-> lists.stream,
     chainedUnaryInt |-> chainUnaryClientInterceptors(lists.unary, lists.stream),
     chainedStreamInt |-> chainStreamClientInterceptors(lists.unary, lists.stream),
     log |-> lists.log \o <<Step("chainUnary", 0), Step("chainStream", 0)>>]

\* Variant: the dialer's error is not checked.
NewClientConnUnchecked(dialErr, opts) ==
    /\ pkg = "drcpclient"
    /\ built = "no"
    /\ dialOpts' = opts
    /\ dialed' = dialErr
    /\ LET d == newDialOptions(opts) IN
        /\ built' = "ok"
        /\ buildErr' = NilErr
        /\ Conn' = "conn"
        /\ optsBuilt' = TRUE
        /\ unaryInts' = d.unaryInts
        /\ streamInts' = d.streamInts
        /\ chainedUnaryInt' = d.chainedUnaryInt
        /\ chainedStreamInt' = d.chainedStreamInt
        /\ buildLog' = <<Step("dial", 0)>> \o d.log
    /\ UNCHANGED <<pkg, calls>>

\* Variant: the options are applied and the chains compiled before the
\* provider is called.
NewClientConnOptionsFirst(dialErr, opts) ==
    /\ pkg = "drcpclient"
    /\ built = "no"
    /\ dialOpts' = opts
    /\ dialed' = dialErr
    /\ LET d == newDialOptions(opts) IN
        /\ optsBuilt' = TRUE
        /\ unaryInts' = d.unaryInts
        /\ streamInts' = d.streamInts
        /\ chainedUnaryInt' = d.chainedUnaryInt
        /\ chainedStreamInt' = d.chainedStreamInt
        /\ buildLog' = d.log \o <<Step("dial", 0)>>
    /\ IF dialErr # NilErr
       THEN built' = "failed" /\ buildErr' = dialErr /\ UNCHANGED Conn
       ELSE built' = "ok" /\ buildErr' = NilErr /\ Conn' = "conn"
    /\ UNCHANGED <<pkg, calls>>

\* drcpclient.NewClientConnWithOptions(ctx, dialer, dialOpts...)
NewClientConnWithOptions(dialErr, opts) ==
    /\ pkg = "drcpclient"
    /\ built = "no"
    /\ dialOpts' = opts
    /\ dialed' = dialErr
    /\ IF dialErr # NilErr
       THEN /\ built' = "failed"
            /\ buildErr' = dialErr
            /\ buildLog' = <<Step("dial", 0)>>
            /\ UNCHANGED <<dopts, optsBuilt, Conn>>
       ELSE LET d == newDialOptions(opts) IN
            /\ built' = "ok"
            /\ buildErr' = NilErr
            /\ Conn' = "conn"
            /\ optsBuilt' = TRUE
            /\ unaryInts' = d.unaryInts
            /\ streamInts' = d.streamInts
            /\ chainedUnaryInt' = d.chainedUnaryInt
            /\ chainedStreamInt' = d.chainedStreamInt
            /\ buildLog' = <<Step("dial", 0)>> \o d.log
    /\ UNCHANGED <<pkg, calls>>

\* drpcinterceptors.NewDialOptions(opts): apply the options, compile nothing.
NewDialOptions(opts) ==
    /\ pkg = "drcpclientconn"
    /\ ~optsBuilt
    /\ built = "no"
    /\ LET lists == ApplyOptions(opts, 1, EmptyLists) IN
        /\ unaryInts' = lists.unary
        /\ streamInts' = lists.stream
        /\ buildLog' = lists.log
    /\ dialOpts' = opts
    /\ optsBuilt' = TRUE
    /\ UNCHANGED <<pkg, chainedUnaryInt, chainedStreamInt, Conn, built, dialed, buildErr, calls>>

\* Variant: the chains are compiled a second time.
initInterceptorsTwice(uInts, sInts) ==
    [chainedUnaryInt |-> ChainUnaryClientInterceptors(uInts, sInts),
     chainedStreamInt |-> ChainStreamClientInterceptors(uInts, sInts),
     log |-> <<Step("chainUnary", 0), Step("chainStream", 0),
               Step("chainUnary", 0), Step("chainStream", 0)>>]

\* ClientConn.initInterceptors(): compile both chains of the connection's options.
initInterceptors(uInts, sInts) ==
    [chainedUnaryInt |-> ChainUnaryClientInterceptors(uInts, sInts),
     chainedStreamInt |-> ChainStreamClientInterceptors(uInts, sInts),
     log |-> <<Step("chainUnary", 0), Step("chainStream", 0)>>]

\* drcpclientconn.NewClientConnWithOptions(dopts, connSupplier)
ConnNewClientConnWithOptions(dialErr) ==
    /\ pkg = "drcpclientconn"
    /\ optsBuilt
    /\ built = "no"
    /\ dialed' = dialErr
    /\ IF dialErr # NilErr
       THEN /\ built' = "failed"
            /\ buildErr' = dialErr
            /\ buildLog' = buildLog \o <<Step("dial", 0)>>
            /\ UNCHANGED <<chainedUnaryInt, chainedStreamInt, Conn>>
       ELSE LET d == initInterceptors(unaryInts, streamInts) IN
            /\ built' = "ok"
            /\ buildErr' = NilErr
            /\ Conn' = "conn"
            /\ chainedUnaryInt' = d.chainedUnaryInt
            /\ chainedStreamInt' = d.chainedStreamInt
            /\ buildLog' = buildLog \o <<Step("dial", 0)>> \o d.log
    /\ UNCHANGED <<pkg, dialOpts, unaryInts, streamInts, optsBuilt, calls>>

Next ==
    \/ \E e \in {NilErr} \cup DialErrors, opts \in DialOptionLists : NewClientConnWithOptions(e, opts)
    \/ \E opts \in DialOptionLists : NewDialOptions(opts)
    \/ \E e \in {NilErr} \cup DialErrors : ConnNewClientConnWithOptions(e)
    \/ \E c \in Callers, in \in Requests : Invoke(c, Background, in)
    \/ \E c \in Callers : NewStream(c, Background)
    \/ \E c \in Callers, in \in Requests : ConnInvoke(c, Background, in)
    \/ \E c \in Callers : ConnNewStream(c, Background)
    \/ \E c \in Callers, beh \in UnaryBehaviours : UnaryInterceptor(c, beh)
    \/ \E c \in Callers, beh \in StreamBehaviours : StreamInterceptor(c, beh)
    \/ \E c \in Callers, e \in {NilErr, ConnErr} : UnaryInvoker(c, e)
    \/ \E c \in Callers, e \in {NilErr, ConnErr} : Streamer(c, e)
    \/ \E c \in Callers : InterceptorReturn(c)
    \/ \E c \in Callers : Return(c)
    \/ \E c \in Callers : NextCall(c)

Spec == Init /\ [][Next]_vars

\* ---- interceptors that issue a call on the connection handle they are given
\* An interceptor may, once per call of the method, issue a call of the same
\* method on its handle before it calls next.
ReenterBehaviours == {"pass", "short", "reenter"}

NextReenter ==
    \/ \E e \in {NilErr} \cup DialErrors, opts \in DialOptionLists : NewClientConnWithOptions(e, opts)
    \/ \E opts \in DialOptionLists : NewDialOptions(opts)
    \/ \E e \in {NilErr} \cup DialErrors : ConnNewClientConnWithOptions(e)
    \/ \E c \in Callers : Invoke(c, Background, "input")
    \/ \E c \in Callers : NewStream(c, Background)
    \/ \E c \in Callers : ConnInvoke(c, Background, "input")
    \/ \E c \in Callers : ConnNewStream(c, Background)
    \/ \E c \in Callers, beh \in ReenterBehaviours : UnaryInterceptor(c, beh)
    \/ \E c \in Callers, beh \in ReenterBehaviours : StreamInterceptor(c, beh)
    \/ \E c \in Callers, e \in {NilErr, ConnErr} : UnaryInvoker(c, e)
    \/ \E c \in Callers, e \in {NilErr, ConnErr} : Streamer(c, e)
    \/ \E c \in Callers : InterceptorReturn(c)
    \/ \E c \in Callers : Return(c)
    \/ \E c \in Callers : NextCall(c)

SpecReenter == Init /\ [][NextReenter]_vars

\* ---- several goroutines calling Invoke on one connection
MaxCallers == 2

UnaryOptionLists == {opts \in DialOptionLists : \A k \in 1..Len(opts) : opts[k].kind = "unary"}

\* Each goroutine sends a request of its own.
RequestOf(c) == IF c % 2 = 1 THEN "input" ELSE "ping"

InitConc ==
    /\ pkg \in Packages
    /\ dialOpts = <<>>
    /\ unaryInts = <<>>
    /\ streamInts = <<>>
    /\ chainedUnaryInt = NilChain
    /\ chainedStreamInt = NilChain
    /\ optsBuilt = FALSE
    /\ Conn = "none"
    /\ built = "no"
    /\ dialed = "notcalled"
    /\ buildErr = NilErr
    /\ buildLog = <<>>
    /\ calls = [c \in 1..MaxCallers |-> IdleCall]

NextConc ==
    \/ \E opts \in UnaryOptionLists : NewClientConnWithOptions(NilErr, opts)
    \/ \E opts \in UnaryOptionLists : NewDialOptions(opts)
    \/ ConnNewClientConnWithOptions(NilErr)
    \/ \E c \in Callers : Invoke(c, Background, RequestOf(c))
    \/ \E c \in Callers : ConnInvoke(c, Background, RequestOf(c))
    \/ \E c \in Callers : UnaryInterceptor(c, "pass")
    \/ \E c \in Callers, e \in {NilErr, ConnErr} : UnaryInvoker(c, e)
    \/ \E c \in Callers : InterceptorReturn(c)
    \/ \E c \in Callers : Return(c)
    \/ \E c \in Callers : NextCall(c)

SpecConc == InitConc /\ [][NextConc]_vars

\* ---- interceptors that call next with a context of their own
\* The caller brings any context; an interceptor passes on the context it
\* was given or one it derived from it.
CtxBehaviours == {"pass", "derive", "short"}

NextCtx ==
    \/ \E e \in {NilErr} \cup DialErrors, opts \in DialOptionLists : NewClientConnWithOptions(e, opts)
    \/ \E opts \in DialOptionLists : NewDialOptions(opts)
    \/ \E e \in {NilErr} \cup DialErrors : ConnNewClientConnWithOptions(e)
    \/ \E c \in Callers, ctx \in Contexts : Invoke(c, ctx, "input")
    \/ \E c \in Callers, ctx \in Contexts : NewStream(c, ctx)
    \/ \E c \in Callers, ctx \in Contexts : ConnInvoke(c, ctx, "input")
    \/ \E c \in Callers, ctx \in Contexts : ConnNewStream(c, ctx)
    \/ \E c \in Callers, beh \in CtxBehaviours : UnaryInterceptor(c, beh)
    \/ \E c \in Callers, beh \in CtxBehaviours : StreamInterceptor(c, beh)
    \/ \E c \in Callers, e \in {NilErr, ConnErr} : UnaryInvoker(c, e)
    \/ \E c \in Callers, e \in {NilErr, ConnErr} : Streamer(c, e)
    \/ \E c \in Callers : InterceptorReturn(c)
    \/ \E c \in Callers : Return(c)
    \/ \E c \in Callers : NextCall(c)

SpecCtx == Init /\ [][NextCtx]_vars

\* =================================================================
\* Properties
\* =================================================================
Finished(call) == call.pc \in {"done", "panic"}

EventsOf(log, ev) == SelectSeq(log, LAMBDA e : e.ev = ev)
Who(events) == [k \in 1..Len(events) |-> events[k].who]
Reverse(seq) == [k \in 1..Len(seq) |-> seq[Len(seq) + 1 - k]]
Steps(log) == [k \in 1..Len(log) |-> <<log[k].ev, log[k].who>>]

\* Every interceptor entered so far calls next once and returns what next
\* returned, leaving the payloads alone.
AllPass(call) == \A k \in 1..Len(call.log) : call.log[k].beh \in {"pass", "conn"}

\* Every interceptor entered so far calls next (once).
CallsNext(call) == \A k \in 1..Len(call.log) : call.log[k].beh # "short"

\* Every interceptor entered so far returns the error it got from next.
ErrorsPassed(call) == \A k \in 1..Len(call.log) : call.log[k].beh \in {"pass", "mutate", "conn"}

ListFor(kind) == IF kind = "unary" THEN unaryInts ELSE streamInts

\* before I1 .. before IN, terminal, after IN .. after I1
Onion(ints) ==
    [k \in 1..Len(ints) |-> <<"before", ints[k]>>]
    \o <<<<"terminal", NoInt>>>>
    \o [k \in 1..Len(ints) |-> <<"after", ints[Len(ints) + 1 - k]>>]

\* What an interceptor that got ret from next hands to its own caller.
Handed(beh, ret) ==
    CASE beh = "swallow" -> [ret EXCEPT !.err = NilErr]
      [] beh \in {"replace", "short"} -> [stream |-> "none", err |-> IntErr]
      [] OTHER -> ret

\* C1: with two or more unary interceptors that each record "before", call
\* next once and record "after", a finished Invoke has recorded exactly
\* I1-before .. IN-before, the terminal invoke, IN-after .. I1-after.
C1_UnaryOrdering ==
    \A c \in Callers :
        (/\ Finished(calls[c])
         /\ calls[c].kind = "unary"
         /\ Len(unaryInts) >= 2
         /\ CallsNext(calls[c]))
        => /\ calls[c].pc = "done"
           /\ Steps(calls[c].log) = Onion(unaryInts)

C1_Witness ==
    \E c \in Callers :
        /\ calls[c].pc = "done"
        /\ calls[c].kind = "unary"
        /\ Len(unaryInts) >= 3
        /\ AllPass(calls[c])
        /\ Len(calls[c].log) = 2 * Len(unaryInts) + 1

\* C2: when every stream interceptor calls its streamer, a finished NewStream
\* has entered S1 .. SM in that order and then called the underlying
\* connection's NewStream, whatever unary interceptors are configured.
C2_StreamOrdering ==
    \A c \in Callers :
        (/\ Finished(calls[c])
         /\ calls[c].kind = "stream"
         /\ CallsNext(calls[c]))
        => /\ calls[c].pc = "done"
           /\ Who(EventsOf(calls[c].log, "before")) = streamInts
           /\ Len(EventsOf(calls[c].log, "terminal")) = 1
           /\ \A k \in 1..Len(calls[c].log) :
                 calls[c].log[k].ev = "terminal" => k = Len(streamInts) + 1

\* C3: the interceptors a finished call has entered are exactly those of the
\* list of its own kind, each once, whatever the length of the other list.
Entered(call, f) == Cardinality({k \in 1..Len(call.log) :
                                    call.log[k].ev = "before" /\ call.log[k].who = f})

C3_ChainsIndependent ==
    \A c \in Callers :
        (/\ Finished(calls[c])
         /\ calls[c].kind \in Kinds
         /\ CallsNext(calls[c]))
        => /\ \A k \in 1..Len(ListFor(calls[c].kind)) :
                 Entered(calls[c], ListFor(calls[c].kind)[k]) = 1
           /\ Len(EventsOf(calls[c].log, "before")) = Len(ListFor(calls[c].kind))

\* C4: with no interceptor of the call's kind configured, a finished call has
\* made exactly one call of the underlying operation, with the caller's
\* request, and has returned that call's result.
C4_ZeroPassthrough ==
    \A c \in Callers :
        (/\ Finished(calls[c])
         /\ calls[c].kind \in Kinds
         /\ ListFor(calls[c].kind) = <<>>)
        => /\ calls[c].pc = "done"
           /\ Len(calls[c].log) = 1
           /\ calls[c].log[1].ev = "terminal"
           /\ calls[c].log[1].arg = calls[c].in
           /\ calls[c].ret = [stream |-> calls[c].log[1].stream, err |-> calls[c].log[1].err]
           /\ calls[c].out = calls[c].log[1].out

\* C5: after a construction with no unary (stream) interceptor the compiled
\* unary (stream) chain is nil, and Invoke (NewStream) takes the direct branch.
C5_NilChainShortcut ==
    built = "ok" =>
        /\ unaryInts = <<>> => chainedUnaryInt = NilChain
        /\ streamInts = <<>> => chainedStreamInt = NilChain
        /\ \A c \in Callers :
              (calls[c].kind \in Kinds /\ ListFor(calls[c].kind) = <<>>)
              => calls[c].via = "direct"

\* C6: with exactly one unary interceptor, an Invoke enters it once, hands it
\* the terminal invoker as next, and returns what the interceptor returns.
C6_SinglePassthrough ==
    \A c \in Callers :
        (calls[c].kind = "unary" /\ Len(unaryInts) = 1)
        => LET call == calls[c]
               befores == EventsOf(call.log, "before")
               afters == EventsOf(call.log, "after")
               terminals == EventsOf(call.log, "terminal") IN
           /\ call.pc # "panic"
           /\ Len(befores) <= 1
           /\ \A k \in 1..Len(call.stack) :
                 call.stack[k].who = unaryInts[1] /\ call.stack[k].next = <<>>
           /\ call.pc = "done" =>
                 /\ Who(befores) = unaryInts
                 /\ Len(terminals) = (IF befores[1].beh = "short" THEN 0 ELSE 1)
                 /\ Len(afters) = Len(terminals)
                 /\ call.ret = Handed(befores[1].beh,
                                      IF terminals = <<>> THEN NoRet
                                      ELSE [stream |-> "none", err |-> terminals[1].err])

C6_Witness ==
    \E c \in Callers :
        /\ calls[c].pc = "done"
        /\ calls[c].kind = "unary"
        /\ Len(unaryInts) = 1
        /\ Len(EventsOf(calls[c].log, "terminal")) = 1
        /\ calls[c].ret.err = IntErr

\* C7: when the underlying operation fails with ConnErr and every interceptor
\* entered returns what next returned, the finished call returns ConnErr.
C7_ErrorPropagation ==
    \A c \in Callers :
        LET terminals == EventsOf(calls[c].log, "terminal") IN
        (/\ calls[c].pc = "done"
         /\ ErrorsPassed(calls[c])
         /\ terminals # <<>>
         /\ terminals[1].err = ConnErr)
        => calls[c].ret.err = ConnErr

C7_Witness ==
    \E c \in Callers :
        /\ calls[c].pc = "done"
        /\ calls[c].kind = "stream"
        /\ AllPass(calls[c])
        /\ Len(EventsOf(calls[c].log, "before")) >= 2
        /\ EventsOf(calls[c].log, "terminal") # <<>>
        /\ EventsOf(calls[c].log, "terminal")[1].err = ConnErr
        /\ calls[c].ret.err = ConnErr

\* C8: after a failed terminal unary operation, every interceptor that was
\* entered has got control back, in reverse entry order, each with the error
\* the layer below it returned.
C8_UnwindOnFailure ==
    \A c \in Callers :
        LET call == calls[c]
            befores == EventsOf(call.log, "before")
            afters == EventsOf(call.log, "after")
            terminals == EventsOf(call.log, "terminal") IN
        (/\ call.pc = "done"
         /\ call.kind = "unary"
         /\ terminals # <<>>
         /\ terminals[1].err = ConnErr)
        => /\ Who(afters) = Reverse(Who(befores))
           /\ afters # <<>> => afters[1].err = ConnErr
           /\ \A k \in 2..Len(afters) :
                 afters[k].err = Handed(afters[k - 1].beh,
                                        [stream |-> "none", err |-> afters[k - 1].err]).err

C8_Witness ==
    \E c \in Callers :
        LET afters == EventsOf(calls[c].log, "after") IN
        /\ calls[c].pc = "done"
        /\ calls[c].kind = "unary"
        /\ EventsOf(calls[c].log, "terminal") # <<>>
        /\ EventsOf(calls[c].log, "terminal")[1].err = ConnErr
        /\ Len(afters) >= 3
        /\ afters[1].beh = "replace"
        /\ afters[2].err = IntErr

\* C9: through interceptors that leave the payloads alone, the underlying
\* Invoke receives the caller's request, and the caller finds in the response
\* slot what the underlying Invoke left there.
NoTamper(call) == \A k \in 1..Len(call.log) : call.log[k].beh # "mutate"

C9_PayloadFidelity ==
    \A c \in Callers :
        LET call == calls[c]
            terminals == EventsOf(call.log, "terminal") IN
        (call.kind = "unary" /\ NoTamper(call))
        => /\ \A k \in 1..Len(terminals) : terminals[k].arg = call.in
           /\ (call.pc = "done" /\ terminals # <<>>) => call.out = terminals[1].out

C9_Witness ==
    \E c \in Callers :
        /\ calls[c].pc = "done"
        /\ calls[c].kind = "unary"
        /\ NoTamper(calls[c])
        /\ Len(EventsOf(calls[c].log, "before")) >= 2
        /\ calls[c].in = "ping"
        /\ calls[c].out = "pong"

\* C10: when the connection provider returns an error, the construction
\* returns no connection together with that error, and no interceptor runs.
C10_ConstructionFailure ==
    dialed \in DialErrors =>
        /\ built = "failed"
        /\ Conn = "none"
        /\ buildErr = dialed
        /\ \A c \in Callers : calls[c] = IdleCall

C10_Witness == built = "failed" /\ dialed = "DialTimeout" /\ Len(dialOpts) = MaxOpts

\* ---- construction order
At(log, step) == {i \in 1..Len(log) : log[i].step = step}
OptionSteps(log) == SelectSeq(log, LAMBDA e : e.step = "option")
InOrder(steps) == \A i \in 1..Len(steps) : steps[i].k = i

\* C11 (as stated): in every construction, failed ones included, all options
\* have been applied in the order given and both chains compiled before the
\* provider is called.
C11_OptionsBeforeProvider ==
    dialed # "notcalled" =>
        /\ Len(OptionSteps(buildLog)) = Len(dialOpts)
        /\ InOrder(OptionSteps(buildLog))
        /\ \A d \in At(buildLog, "dial") :
              /\ \A i \in At(buildLog, "option") : i < d
              /\ \E i \in At(buildLog, "chainUnary") : i < d
              /\ \E i \in At(buildLog, "chainStream") : i < d

\* C11 (amended): the provider is called once, before any chain is compiled,
\* and a failed provider ends the construction with nothing compiled.  In
\* drcpclient the provider is called first of all, so a failed construction
\* has applied no option.  After a successful construction every option has
\* been applied, in the order given, before the unary and then the stream
\* chain were compiled.
C11_ProviderBeforeCompile ==
    dialed # "notcalled" =>
        /\ Cardinality(At(buildLog, "dial")) = 1
        /\ InOrder(OptionSteps(buildLog))
        /\ \A c \in At(buildLog, "chainUnary") \cup At(buildLog, "chainStream") :
              /\ \A d \in At(buildLog, "dial") : d < c
              /\ \A i \in At(buildLog, "option") : i < c
        /\ pkg = "drcpclient" => buildLog[1].step = "dial"
        /\ dialed \in DialErrors =>
              /\ At(buildLog, "chainUnary") \cup At(buildLog, "chainStream") = {}
              /\ pkg = "drcpclient" => At(buildLog, "option") = {}
        /\ dialed = NilErr =>
              /\ Len(OptionSteps(buildLog)) = Len(dialOpts)
              /\ Cardinality(At(buildLog, "chainUnary")) = 1
              /\ Cardinality(At(buildLog, "chainStream")) = 1
              /\ \A u \in At(buildLog, "chainUnary"), t \in At(buildLog, "chainStream") : u < t

C11_Witness ==
    /\ pkg = "drcpclient"
    /\ dialed \in DialErrors
    /\ Len(dialOpts) = MaxOpts
    /\ buildLog = <<Step("dial", 0)>>

\* ---- accumulation of options
RECURSIVE ConcatArgs(_, _, _)
ConcatArgs(opts, kind, k) ==
    IF k = 0 THEN <<>>
    ELSE ConcatArgs(opts, kind, k - 1) \o (IF opts[k].kind = kind THEN opts[k].ints ELSE <<>>)

Given(kind) == ConcatArgs(dialOpts, kind, Len(dialOpts))
IsPrefix(a, b) == Len(a) <= Len(b) /\ \A i \in 1..Len(a) : a[i] = b[i]

InnerCall(log) == SelectSeq(log, LAMBDA e : e.depth = 1)

\* C13: every entered interceptor holds the wrapper as its connection handle,
\* and a call of the method an interceptor issues on that handle enters the
\* configured interceptors of its kind from I1 on, in order, and reaches the
\* underlying connection only after all of them.
C13_SelfAsHandle ==
    \A c \in Callers :
        LET call == calls[c]
            befores == Who(EventsOf(InnerCall(call.log), "before"))
            terminals == EventsOf(InnerCall(call.log), "terminal") IN
        call.kind \in Kinds =>
            /\ \A k \in 1..Len(call.stack) : call.stack[k].handle = "wrapper"
            /\ IsPrefix(befores, ListFor(call.kind))
            /\ terminals # <<>> => befores = ListFor(call.kind)
            /\ call.pc = "panic" => call.depth = 0

\* C13, for Invoke alone: an Invoke issued on the handle enters all of
\* I1 .. IN before it reaches the underlying connection.
C13_InvokeOnHandle ==
    \A c \in Callers :
        LET call == calls[c]
            befores == Who(EventsOf(InnerCall(call.log), "before"))
            terminals == EventsOf(InnerCall(call.log), "terminal") IN
        call.kind = "unary" =>
            /\ \A k \in 1..Len(call.stack) : call.stack[k].handle = "wrapper"
            /\ IsPrefix(befores, unaryInts)
            /\ terminals # <<>> => befores = unaryInts
            /\ call.pc # "panic"

\* ---- concurrent calls
\* C14: whatever the interleaving of the Invoke calls in flight on one
\* connection, each call's own record is at every moment a prefix of
\* I1-before .. IN-before, terminal, IN-after .. I1-after, and is all of it
\* when the call has returned; the terminal invoke of a call receives that
\* call's request and the call returns that invoke's result.
C14_ConcurrentIndependence ==
    \A c \in Callers :
        LET call == calls[c]
            terminals == EventsOf(call.log, "terminal") IN
        call.kind = "unary" =>
            /\ call.pc # "panic"
            /\ IsPrefix(Steps(call.log), Onion(unaryInts))
            /\ call.pc = "done" => Steps(call.log) = Onion(unaryInts)
            /\ \A k \in 1..Len(terminals) :
                  /\ terminals[k].arg = RequestOf(c)
                  /\ call.pc = "done" =>
                        /\ call.ret.err = terminals[k].err
                        /\ call.out = (IF terminals[k].err = NilErr THEN Reply(RequestOf(c)) ELSE "")

C14_Witness ==
    /\ Len(unaryInts) >= 2
    /\ calls[1].pc = "done"
    /\ calls[1].out = "output"
    /\ Steps(calls[1].log) = Onion(unaryInts)
    /\ calls[2].pc = "ret"
    /\ calls[2].ret.err = ConnErr
    /\ Len(calls[2].stack) = 1

\* ---- the method's result
\* C15: a returned Invoke or NewStream returns exactly what the outermost
\* layer it called returned: what I1 returned (whatever I1 made of the result
\* of the layer below) when an interceptor was entered, else what the
\* underlying operation returned.
C15_ResultVerbatim ==
    \A c \in Callers :
        calls[c].pc = "done" =>
            LET call == calls[c]
                befores == EventsOf(call.log, "before")
                last == call.log[Len(call.log)]
                got == [stream |-> last.stream, err |-> last.err] IN
            /\ call.log # <<>>
            /\ befores = <<>> => last.ev = "terminal" /\ call.ret = got
            /\ befores # <<>> =>
                  /\ last.ev \in {"before", "after"}
                  /\ last.who = befores[1].who
                  /\ last.who = ListFor(call.kind)[1]
                  /\ call.ret = Handed(last.beh, got)

C15_Witness ==
    \E c \in Callers :
        /\ calls[c].pc = "done"
        /\ calls[c].kind = "stream"
        /\ Len(EventsOf(calls[c].log, "before")) >= 2
        /\ calls[c].log[Len(calls[c].log)].ev = "after"
        /\ calls[c].log[Len(calls[c].log)].beh = "replace"
        /\ calls[c].log[Len(calls[c].log)].stream = "stream"
        /\ calls[c].ret = [stream |-> "none", err |-> IntErr]

\* ---- no retry
\* C16: one Invoke calls the underlying connection's Invoke at most once and
\* enters no interceptor twice; nothing but returns to the interceptors
\* entered follows the terminal call, failed or not; and when every
\* interceptor entered calls next, the returned Invoke has made exactly one
\* terminal call.
C16_NoRetry ==
    \A c \in Callers :
        LET call == calls[c]
            terminals == EventsOf(call.log, "terminal") IN
        call.kind = "unary" =>
            /\ Len(terminals) <= 1
            /\ \A k \in 1..Len(unaryInts) : Entered(call, unaryInts[k]) <= 1
            /\ \A k \in 1..Len(call.log) :
                  call.log[k].ev = "terminal" =>
                     \A j \in (k + 1)..Len(call.log) : call.log[j].ev = "after"
            /\ (call.pc = "done" /\ CallsNext(call)) => Len(terminals) = 1

C16_Witness ==
    \E c \in Callers :
        /\ calls[c].pc = "done"
        /\ calls[c].kind = "unary"
        /\ Len(unaryInts) >= 2
        /\ CallsNext(calls[c])
        /\ Len(EventsOf(calls[c].log, "terminal")) = 1
        /\ calls[c].log[Len(unaryInts) + 1].err = ConnErr
        /\ calls[c].ret.err = ConnErr

\* ---- compilation
ChainFor(kind) == IF kind = "unary" THEN chainedUnaryInt ELSE chainedStreamInt

\* What the construction of the package in use compiles from the lists.
Compiled(kind) ==
    CASE pkg = "drcpclient" /\ kind = "unary" -> chainUnaryClientInterceptors(unaryInts, streamInts)
      [] pkg = "drcpclient" /\ kind = "stream" -> chainStreamClientInterceptors(unaryInts, streamInts)
      [] pkg # "drcpclient" /\ kind = "unary" -> ChainUnaryClientInterceptors(unaryInts, streamInts)
      [] OTHER -> ChainStreamClientInterceptors(unaryInts, streamInts)

\* C17 (as stated): each chain is compiled at most once, at construction, and
\* no Invoke or NewStream call runs the fold over the interceptor list.
C17_FoldOnlyAtConstruction ==
    /\ Cardinality(At(buildLog, "chainUnary")) <= 1
    /\ Cardinality(At(buildLog, "chainStream")) <= 1
    /\ \A c \in Callers : calls[c].folds = 0

\* C17 (amended): the compiled fields are assigned once each, at construction,
\* and stay what the compilation made of the lists; the fold over the list is
\* inside the compiled function, so every call through such a function runs
\* it once, and a call through a nil chain or a single interceptor not at all.
C17_CompiledOnceFoldPerCall ==
    /\ Cardinality(At(buildLog, "chainUnary")) = (IF built = "ok" THEN 1 ELSE 0)
    /\ Cardinality(At(buildLog, "chainStream")) = (IF built = "ok" THEN 1 ELSE 0)
    /\ built = "ok" => \A kind \in Kinds : ChainFor(kind) = Compiled(kind)
    /\ built # "ok" => \A kind \in Kinds : ChainFor(kind) = NilChain
    /\ \A c \in Callers :
          calls[c].kind \in Kinds =>
             calls[c].folds = (IF ChainFor(calls[c].kind).tag = "closure" THEN 1 ELSE 0)

C17_Witness ==
    \E c \in Callers :
        /\ pkg = "drcpclientconn"
        /\ Len(unaryInts) >= 2
        /\ calls[c].pc = "done"
        /\ calls[c].kind = "unary"
        /\ calls[c].folds = 1
        /\ Len(EventsOf(calls[c].log, "before")) = Len(unaryInts)

\* ---- the configuration after construction
\* C18: once the construction has returned a connection, no step (of any
\* Invoke or NewStream call, at any point of it) changes the unary list, the
\* stream list, either compiled chain or the underlying connection.
C18_ConfigFrozen ==
    [][built = "ok" =>
         UNCHANGED <<unaryInts, streamInts, chainedUnaryInt, chainedStreamInt, Conn>>]_vars

C18_Witness ==
    \E c \in Callers :
        /\ built = "ok"
        /\ pkg = "drcpclient"
        /\ Len(unaryInts) = 2
        /\ Len(streamInts) = 1
        /\ chainedUnaryInt = ClosureChain(2, "unaryInts")
        /\ Conn = "conn"
        /\ calls[c].pc = "done"
        /\ calls[c].kind = "unary"
        /\ Len(calls[c].log) = 5

\* ---- a single interceptor
\* C19: after a construction with exactly one unary (stream) interceptor, the
\* compiled unary (stream) chain is that interceptor itself, not a function
\* composed around it.
C19_SingleCompiledForm ==
    built = "ok" =>
        /\ Len(unaryInts) = 1 => chainedUnaryInt = SingleChain(unaryInts[1])
        /\ Len(streamInts) = 1 => chainedStreamInt = SingleChain(streamInts[1])

\* ---- contexts
\* The layers a call has entered, in order: interceptors and the terminal.
Entries(log) == SelectSeq(log, LAMBDA e : e.ev \in {"before", "terminal"})

\* The context an entered interceptor passes to its next.
Passed(e) == IF e.beh = "derive" THEN DeriveCtx(e.ctx, e.who) ELSE e.ctx

\* C20: the first layer a call enters receives the caller's context; every
\* further layer, the terminal operation included, receives the context the
\* layer before it passed to next; and an interceptor that gets control back
\* still holds the context it was entered with, so a context derived by Ik
\* reaches the layers inside Ik and none outside.
C20_ContextPassThrough ==
    \A c \in Callers :
        LET call == calls[c]
            entries == Entries(call.log) IN
        call.kind \in Kinds =>
            /\ entries # <<>> => entries[1].ctx = call.ctx0
            /\ \A k \in 2..Len(entries) : entries[k].ctx = Passed(entries[k - 1])
            /\ \A k \in 1..Len(call.log) :
                  call.log[k].ev = "after" =>
                     \E j \in 1..(k - 1) :
                        /\ call.log[j].ev = "before"
                        /\ call.log[j].who = call.log[k].who
                        /\ call.log[j].ctx = call.log[k].ctx
            /\ call.pc = "done" => call.ctx = call.ctx0

C20_Witness ==
    \E c \in Callers :
        LET call == calls[c]
            entries == Entries(call.log) IN
        /\ call.pc = "done"
        /\ call.kind = "unary"
        /\ call.ctx0.root = "request"
        /\ Len(unaryInts) = 3
        /\ Len(entries) = 4
        /\ entries[1].beh = "pass" /\ entries[2].beh = "derive" /\ entries[3].beh = "pass"
        /\ entries[2].ctx = call.ctx0
        /\ entries[4].ctx = DeriveCtx(call.ctx0, unaryInts[2])
        /\ call.log[Len(call.log)].ctx = call.ctx0

\* ---- an interceptor that does not call next
\* Where in the log an interceptor was entered that returns without calling next.
ShortAt(log) == {k \in 1..Len(log) : log[k].ev = "before" /\ log[k].beh = "short"}

\* C21: when Ik returns without calling next, the call enters no further
\* interceptor and makes no call of the underlying operation; the
\* interceptors entered before Ik get control back in reverse entry order,
\* the innermost of them with what Ik returned and each further one with what
\* the one below it returned; and the method returns what I1 returned.
C21_ShortCircuit ==
    \A c \in Callers :
        LET call == calls[c]
            befores == EventsOf(call.log, "before")
            afters == EventsOf(call.log, "after") IN
        \A k \in ShortAt(call.log) :
            /\ call.pc # "panic"
            /\ EventsOf(call.log, "terminal") = <<>>
            /\ Len(befores) = k
            /\ \A j \in (k + 1)..Len(call.log) : call.log[j].ev = "after"
            /\ IsPrefix(Who(afters), Reverse(Who(SubSeq(befores, 1, k - 1))))
            /\ afters # <<>> => afters[1].err = IntErr /\ afters[1].stream = "none"
            /\ \A j \in 2..Len(afters) :
                  [stream |-> afters[j].stream, err |-> afters[j].err]
                  = Handed(afters[j - 1].beh,
                           [stream |-> afters[j - 1].stream, err |-> afters[j - 1].err])
            /\ call.pc = "done" =>
                  /\ Len(afters) = k - 1
                  /\ call.ret = (IF k = 1 THEN [stream |-> "none", err |-> IntErr]
                                 ELSE Handed(afters[k - 1].beh,
                                             [stream |-> afters[k - 1].stream,
                                              err |-> afters[k - 1].err]))

C21_Witness ==
    \E c \in Callers :
        /\ calls[c].pc = "done"
        /\ calls[c].kind = "unary"
        /\ Len(unaryInts) = 3
        /\ ShortAt(calls[c].log) = {3}
        /\ Len(calls[c].log) = 5
        /\ calls[c].log[4].who = unaryInts[2]
        /\ calls[c].log[5].who = unaryInts[1]
        /\ calls[c].log[4].beh = "swallow"
        /\ calls[c].ret.err = NilErr

\* ---- runtime faults
\* C22: whatever the lengths of the unary and the stream list, no Invoke and
\* no NewStream call ends in a runtime fault: none indexes an interceptor
\* list past its end, and a nil chain is never called.
C22_NoOutOfRange ==
    \A c \in Callers :
        /\ calls[c].pc # "panic"
        /\ calls[c].via = "chain" => ChainFor(calls[c].kind) # NilChain

\* C22, for Invoke alone: no Invoke call ends in a runtime fault.
C22_InvokeNeverFaults ==
    \A c \in Callers :
        calls[c].kind = "unary" =>
            /\ calls[c].pc # "panic"
            /\ calls[c].via = "chain" => chainedUnaryInt # NilChain
====
